---------------------------- MODULE Spec2Model ----------------------------
(***************************************************************************)
(* Model of the toolbox ledger helpers:                                    *)
(*   dedup      (toolbox/dedup.py)      row-level cancelling pairs         *)
(*   dedupacct  (toolbox/dedupacct.py)  cancelling pairs of Tx-ID sums     *)
(*   txlookup   (toolbox/txlookup.py)   two-pass lookup by amount          *)
(* Amounts are modelled as integers: the code only takes abs(), compares   *)
(* with 0, tests equality and (in dedupacct) adds, and the commands reject *)
(* NaN amounts before matching.  Row labels are 0-based, as in pandas.     *)
(***************************************************************************)
EXTENDS Integers, Sequences, FiniteSets, TLC

\* ------------------------------------------------------------- bounds
MaxLen == 4          \* rows of the CSV given to dedup
MaxAmt == 2          \* amounts range over -MaxAmt..MaxAmt
MaxRows == 3         \* in-scope rows of dedupacct
MaxAcctAmt == 1      \* dedupacct amounts range over -MaxAcctAmt..MaxAcctAmt
MaxFiles == 2        \* parquet files scanned by txlookup
MaxLookupRows == 3   \* rows over all files scanned by txlookup

Amounts == (0 - MaxAmt)..MaxAmt

\* Amounts of the looked-up ledger; only equality with the target is used.
LookupAmounts == {1, 2}

SeqsUpTo(S, n) == UNION {[1..k -> S] : k \in 0..n}

\* ------------------------------------------------- transaction identifiers
\* A Tx-ID cell is null (missing), a number or a text.
Null == [kind |-> "null", num |-> 0, txt |-> ""]
IntId(n) == [kind |-> "int", num |-> n, txt |-> ""]
TxtId(s) == [kind |-> "text", num |-> 0, txt |-> s]

Ids == {Null, IntId(1), TxtId("1"), TxtId("nan")}

Digits == <<"0", "1", "2", "3", "4", "5", "6", "7", "8", "9">>

RECURSIVE IntToStr(_)
IntToStr(n) ==
    IF n < 10 THEN Digits[n + 1] ELSE IntToStr(n \div 10) \o Digits[(n % 10) + 1]

\* str() of a Tx-ID cell (Series.astype(str) / map(str, ...)): a missing
\* value renders as "nan", a number as its digits, a text as itself.
Str(id) ==
    CASE id.kind = "null" -> "nan"
      [] id.kind = "int" -> IntToStr(id.num)
      [] OTHER -> id.txt

AcctAmounts == (0 - MaxAcctAmt)..MaxAcctAmt

Records == [id : Ids, amt : AcctAmounts]
LookupRecords == [id : Ids, amt : LookupAmounts]

VARIABLES
    cmd,          \* the subcommand that is running
    pc,           \* position in the subcommand
    run,          \* dedup: 1 on the original file, 2 on its own output
    amounts,      \* the column handed to _find_pairs
    idx,          \* _find_pairs: label of the next row of the loop
    positives,    \* _find_pairs: AmountKey -> label, unmatched amounts >= 0
    negatives,    \* _find_pairs: AmountKey -> label, unmatched amounts < 0
    pairs,        \* _find_pairs: emitted (positive label, negative label)
    cleaned,      \* labels of the surviving rows, in order
    df_acc,       \* dedupacct: the in-scope rows
    summary,      \* dedupacct: one (Tx-ID, sum) per Tx-ID, first-seen order
    files,        \* txlookup: the parquet files, each a sequence of rows
    lookup,       \* txlookup: the target amount
    target_txids, \* txlookup: strings of the Tx-IDs found by pass 1
    fi,           \* txlookup: number of files the current pass has read
    result        \* txlookup: the emitted rows

vars == <<cmd, pc, run, amounts, idx, positives, negatives, pairs, cleaned,
          df_acc, summary, files, lookup, target_txids, fi, result>>

matchVars == <<amounts, idx, positives, negatives, pairs>>
acctVars == <<df_acc, summary>>
lookupVars == <<files, lookup, target_txids, fi, result>>

\* ------------------------------------------------------- _find_pairs
EmptyMap == [k \in {} |-> 0]

\* key = abs(amount)
AbsKey(amount) == IF amount < 0 THEN 0 - amount ELSE amount

IsNonNegStrict(amount) == amount > 0

\* if amount >= 0
IsNonNeg(amount) == amount >= 0

HasKey(bucket, key) == key \in DOMAIN bucket

PopKeep(bucket, key) == bucket

\* the dict left by bucket.pop(key, None)
Pop(bucket, key) == [k \in (DOMAIN bucket) \ {key} |-> bucket[k]]

InsertFirstWins(bucket, key, label) ==
    IF key \in DOMAIN bucket THEN bucket ELSE (key :> label) @@ bucket

\* bucket[key] = idx (overwrites an earlier unmatched entry)
Insert(bucket, key, label) == (key :> label) @@ bucket

\* pairs.append((idx, neg_idx))
PosMatch(ps, label, neg_idx) == Append(ps, <<label, neg_idx>>)

NegMatchSwapped(ps, pos_idx, label) == Append(ps, <<label, pos_idx>>)

\* pairs.append((pos_idx, idx))
NegMatch(ps, pos_idx, label) == Append(ps, <<pos_idx, label>>)

\* One iteration of the loop over df[amt_col].items().
FindPairsIter ==
    LET amount == amounts[idx + 1]
        key == AbsKey(amount)
    IN  /\ idx < Len(amounts)
        /\ IF IsNonNeg(amount)
           THEN IF HasKey(negatives, key)
                THEN /\ pairs' = PosMatch(pairs, idx, negatives[key])
                     /\ negatives' = Pop(negatives, key)
                     /\ positives' = positives
                ELSE /\ positives' = Insert(positives, key, idx)
                     /\ UNCHANGED <<negatives, pairs>>
           ELSE IF HasKey(positives, key)
                THEN /\ pairs' = NegMatch(pairs, positives[key], idx)
                     /\ positives' = Pop(positives, key)
                     /\ negatives' = negatives
                ELSE /\ negatives' = Insert(negatives, key, idx)
                     /\ UNCHANGED <<positives, pairs>>
        /\ idx' = idx + 1
        /\ amounts' = amounts

\* Labels that occur in some emitted pair: [i for p in pairs for i in p]
Matched(ps) == {ps[i][1] : i \in 1..Len(ps)} \cup {ps[i][2] : i \in 1..Len(ps)}

RECURSIVE LabelsFrom(_, _, _)
\* The labels l..n-1 that are not in drop, in increasing order.
LabelsFrom(l, n, drop) ==
    IF l >= n THEN <<>>
    ELSE IF l \in drop THEN LabelsFrom(l + 1, n, drop)
         ELSE <<l>> \o LabelsFrom(l + 1, n, drop)

\* ------------------------------------------------------------- dedup
InitCommon ==
    /\ run = 1
    /\ idx = 0
    /\ positives = EmptyMap
    /\ negatives = EmptyMap
    /\ pairs = <<>>
    /\ cleaned = <<>>
    /\ summary = <<>>
    /\ target_txids = {}
    /\ fi = 0
    /\ result = <<>>

InitDedup ==
    /\ cmd = "dedup"
    /\ pc = "find"
    /\ amounts \in SeqsUpTo(Amounts, MaxLen)
    /\ df_acc = <<>>
    /\ files = <<>>
    /\ lookup = 0
    /\ InitCommon

\* dedup_cmd: one iteration of _find_pairs(df, amt_col)
DedupFindPairsStep ==
    /\ cmd = "dedup"
    /\ pc = "find"
    /\ FindPairsIter
    /\ UNCHANGED <<cmd, pc, run, cleaned>>
    /\ UNCHANGED acctVars
    /\ UNCHANGED lookupVars

\* dedup_cmd: cleaned = df.drop(index=[i for p in pairs for i in p]) if pairs else df
DedupDrop ==
    /\ cmd = "dedup"
    /\ pc = "find"
    /\ idx = Len(amounts)
    /\ cleaned' = LabelsFrom(0, Len(amounts), Matched(pairs))
    /\ pc' = "done"
    /\ UNCHANGED <<cmd, run>>
    /\ UNCHANGED matchVars
    /\ UNCHANGED acctVars
    /\ UNCHANGED lookupVars

\* dedup_cmd run again on the file the first run wrote: the surviving rows,
\* in their order, relabelled 0..n-1 by read_csv.
DedupRerun ==
    /\ cmd = "dedup"
    /\ pc = "done"
    /\ run = 1
    /\ amounts' = [i \in 1..Len(cleaned) |-> amounts[cleaned[i] + 1]]
    /\ idx' = 0
    /\ positives' = EmptyMap
    /\ negatives' = EmptyMap
    /\ pairs' = <<>>
    /\ cleaned' = <<>>
    /\ run' = 2
    /\ pc' = "find"
    /\ cmd' = cmd
    /\ UNCHANGED acctVars
    /\ UNCHANGED lookupVars

NextDedup == DedupFindPairsStep \/ DedupDrop \/ DedupRerun

SpecDedup == InitDedup /\ [][NextDedup]_vars

\* --------------------------------------------------------- dedupacct
RECURSIVE FirstSeen(_)
\* The distinct Tx-IDs of the rows in order of first appearance
\* (groupby(tx_col, dropna=False, sort=False): null is a key like any other).
FirstSeen(rows) ==
    IF rows = <<>> THEN <<>>
    ELSE LET init == FirstSeen(SubSeq(rows, 1, Len(rows) - 1))
             last == rows[Len(rows)].id
         IN  IF \E g \in 1..Len(init) : init[g] = last THEN init
             ELSE Append(init, last)

RECURSIVE SumOf(_, _)
\* [amount_col].sum() of the rows of one Tx-ID
SumOf(rows, id) ==
    IF rows = <<>> THEN 0
    ELSE SumOf(SubSeq(rows, 1, Len(rows) - 1), id)
         + (IF rows[Len(rows)].id = id THEN rows[Len(rows)].amt ELSE 0)

\* summary: one row (tx_col, _tx_sum_) per Tx-ID, labelled 0..n-1 by reset_index
Summarise(rows) ==
    LET ids == FirstSeen(rows)
    IN  [g \in 1..Len(ids) |-> [id |-> ids[g], sum |-> SumOf(rows, ids[g])]]

TxidsToDropPositiveSide(ps, summ) ==
    {Str(summ[ps[i][1] + 1].id) : i \in 1..Len(ps)}

\* txids_to_drop = set(summary.loc[[i for pair in pairs for i in pair], tx_col].astype(str))
TxidsToDrop(ps, summ) == {Str(summ[l + 1].id) : l \in Matched(ps)}

\* labels of the rows with df_acc[tx_col].astype(str).isin(txids)
RowsIn(rows, txids) == {l \in 0..(Len(rows) - 1) : Str(rows[l + 1].id) \in txids}

InitAcct ==
    /\ cmd = "dedupacct"
    /\ pc = "scope"
    /\ df_acc \in SeqsUpTo(Records, MaxRows)
    /\ amounts = <<>>
    /\ files = <<>>
    /\ lookup = 0
    /\ InitCommon

\* dedupacct_cmd: no row matched the account / date criteria, exit 1
AcctNoScope ==
    /\ cmd = "dedupacct"
    /\ pc = "scope"
    /\ df_acc = <<>>
    /\ pc' = "failed"
    /\ UNCHANGED <<cmd, run, cleaned>>
    /\ UNCHANGED matchVars
    /\ UNCHANGED acctVars
    /\ UNCHANGED lookupVars

\* dedupacct_cmd: build the Tx-level summary and hand its sums to _find_pairs
AcctSummarise ==
    /\ cmd = "dedupacct"
    /\ pc = "scope"
    /\ df_acc # <<>>
    /\ summary' = Summarise(df_acc)
    /\ amounts' = [g \in 1..Len(summary') |-> summary'[g].sum]
    /\ pc' = "find"
    /\ UNCHANGED <<cmd, run, cleaned, df_acc, idx, positives, negatives, pairs>>
    /\ UNCHANGED lookupVars

\* dedupacct_cmd: one iteration of _find_pairs(summary, "_tx_sum_")
AcctFindPairsStep ==
    /\ cmd = "dedupacct"
    /\ pc = "find"
    /\ FindPairsIter
    /\ UNCHANGED <<cmd, pc, run, cleaned>>
    /\ UNCHANGED acctVars
    /\ UNCHANGED lookupVars

\* dedupacct_cmd: drop every row whose Tx-ID string is in txids_to_drop
AcctDrop ==
    /\ cmd = "dedupacct"
    /\ pc = "find"
    /\ idx = Len(amounts)
    /\ cleaned' = IF pairs = <<>>
                  THEN LabelsFrom(0, Len(df_acc), {})
                  ELSE LabelsFrom(0, Len(df_acc),
                                  RowsIn(df_acc, TxidsToDrop(pairs, summary)))
    /\ pc' = "done"
    /\ UNCHANGED <<cmd, run>>
    /\ UNCHANGED matchVars
    /\ UNCHANGED acctVars
    /\ UNCHANGED lookupVars

NextAcct == AcctNoScope \/ AcctSummarise \/ AcctFindPairsStep \/ AcctDrop

SpecAcct == InitAcct /\ [][NextAcct]_vars

\* ---------------------------------------------------------- txlookup
\* files cut out of one row sequence: file j holds rows cut[j-1]+1 .. cut[j]
FilesOf(rows, nf, cut) ==
    [j \in 1..nf |-> SubSeq(rows, (IF j = 1 THEN 0 ELSE cut[j - 1]) + 1, cut[j])]

\* map(str, df.loc[df[amount_col] == lookup, tx_col].dropna().unique())
Hits(file, target) ==
    {Str(file[i].id) : i \in {j \in 1..Len(file) :
                                  file[j].amt = target /\ file[j].id # Null}}

UpdateOverwrite(txids, hits) == hits

\* target_txids.update(hits)
Update(txids, hits) == txids \cup hits

NoMatchNever(txids) == FALSE

\* if not target_txids
NoMatch(txids) == txids = {}

SelectByAmount(file, txids, target) ==
    SelectSeq(file, LAMBDA r : r.amt = target)

\* df[df[tx_col].astype(str).isin(target_txids)]
SelectByTxid(file, txids, target) ==
    SelectSeq(file, LAMBDA r : Str(r.id) \in txids)

InitLookup ==
    /\ cmd = "txlookup"
    /\ pc = "pass1"
    /\ \E rows \in SeqsUpTo(LookupRecords, MaxLookupRows), nf \in 0..MaxFiles :
          \E cut \in [1..nf -> 0..Len(rows)] :
             /\ \A j \in 1..(nf - 1) : cut[j] <= cut[j + 1]
             /\ IF nf = 0 THEN rows = <<>> ELSE cut[nf] = Len(rows)
             /\ files = FilesOf(rows, nf, cut)
    /\ lookup \in LookupAmounts
    /\ amounts = <<>>
    /\ df_acc = <<>>
    /\ InitCommon

\* txlookup_cmd, pass 1: one file of the loop
Pass1File ==
    /\ cmd = "txlookup"
    /\ pc = "pass1"
    /\ fi < Len(files)
    /\ target_txids' = Update(target_txids, Hits(files[fi + 1], lookup))
    /\ fi' = fi + 1
    /\ UNCHANGED <<cmd, pc, run, cleaned, files, lookup, result>>
    /\ UNCHANGED matchVars
    /\ UNCHANGED acctVars

\* txlookup_cmd: no Tx-ID found, exit 1
Pass1NoMatch ==
    /\ cmd = "txlookup"
    /\ pc = "pass1"
    /\ fi = Len(files)
    /\ NoMatch(target_txids)
    /\ pc' = "failed"
    /\ UNCHANGED <<cmd, run, cleaned>>
    /\ UNCHANGED matchVars
    /\ UNCHANGED acctVars
    /\ UNCHANGED lookupVars

\* txlookup_cmd: pass 1 found Tx-IDs, pass 2 starts over the files
Pass1Found ==
    /\ cmd = "txlookup"
    /\ pc = "pass1"
    /\ fi = Len(files)
    /\ ~NoMatch(target_txids)
    /\ pc' = "pass2"
    /\ fi' = 0
    /\ UNCHANGED <<cmd, run, cleaned, files, lookup, target_txids, result>>
    /\ UNCHANGED matchVars
    /\ UNCHANGED acctVars

\* txlookup_cmd, pass 2: one file of the loop; result is the concatenation
\* of the frames appended so far (pd.concat(frames, ignore_index=True))
Pass2File ==
    /\ cmd = "txlookup"
    /\ pc = "pass2"
    /\ fi < Len(files)
    /\ result' = result \o SelectByTxid(files[fi + 1], target_txids, lookup)
    /\ fi' = fi + 1
    /\ UNCHANGED <<cmd, pc, run, cleaned, files, lookup, target_txids>>
    /\ UNCHANGED matchVars
    /\ UNCHANGED acctVars

\* txlookup_cmd: every file read, the result is written out
Pass2Done ==
    /\ cmd = "txlookup"
    /\ pc = "pass2"
    /\ fi = Len(files)
    /\ pc' = "done"
    /\ UNCHANGED <<cmd, run, cleaned>>
    /\ UNCHANGED matchVars
    /\ UNCHANGED acctVars
    /\ UNCHANGED lookupVars

NextLookup == Pass1File \/ Pass1NoMatch \/ Pass1Found \/ Pass2File \/ Pass2Done

SpecLookup == InitLookup /\ [][NextLookup]_vars

\* ------------------------------------- the two callers of _find_pairs
InitPairs == InitDedup \/ InitAcct

NextPairs == NextDedup \/ NextAcct

SpecPairs == InitPairs /\ [][NextPairs]_vars

\* --------------------------------------------------- all three commands
Init == InitDedup \/ InitAcct \/ InitLookup

Next == NextDedup \/ NextAcct \/ NextLookup

Spec == Init /\ [][Next]_vars

\* ===================================================================
\* Properties
\* ===================================================================
Range(seq) == {seq[i] : i \in 1..Len(seq)}

Labels(seq) == 0..(Len(seq) - 1)

PassOver == pc \in {"find", "done"} /\ idx = Len(amounts)

\* C1: every pair (p, n) emitted by _find_pairs is a genuine cancelling
\* pair: p and n are distinct labels of the input, amount[p] >= 0,
\* amount[n] < 0 and abs(amount[p]) = abs(amount[n]); a record whose amount
\* is zero is in no pair.
C1_GenuinePairs ==
    \A i \in 1..Len(pairs) :
        LET p == pairs[i][1]
            n == pairs[i][2]
        IN  /\ p \in Labels(amounts)
            /\ n \in Labels(amounts)
            /\ p # n
            /\ amounts[p + 1] >= 0
            /\ amounts[n + 1] < 0
            /\ amounts[p + 1] = 0 - amounts[n + 1]
            /\ amounts[p + 1] # 0
            /\ amounts[n + 1] # 0

\* A pass that emitted a pair over an input that also holds a zero amount.
C1_Witness ==
    /\ PassOver
    /\ Len(pairs) >= 1
    /\ \E i \in 1..Len(amounts) : amounts[i] = 0

\* C2: no label is in more than one emitted pair nor twice in one pair; in
\* row mode the removed rows number exactly 2 * (number of pairs) and the
\* survivors number the input count minus 2 * (number of pairs).
C2_DisjointPairsEvenRemoval ==
    /\ Cardinality(Matched(pairs)) = 2 * Len(pairs)
    /\ (cmd = "dedup" /\ pc = "done") =>
          /\ Cardinality(Labels(amounts) \ Range(cleaned)) = 2 * Len(pairs)
          /\ Len(cleaned) = Len(amounts) - 2 * Len(pairs)
          /\ Cardinality(Range(cleaned)) = Len(cleaned)

\* dedup finished after removing two pairs.
C2_Witness ==
    /\ cmd = "dedup"
    /\ pc = "done"
    /\ Len(pairs) >= 2

\* C3: idempotence of row mode: the matcher run on the survivors of a first
\* dedup run emits no pair.
C3_Idempotent ==
    (cmd = "dedup" /\ run = 2) => pairs = <<>>

LabelsOfKey(k) == {l \in Labels(amounts) : AbsKey(amounts[l + 1]) = k}

PairsOfKey(k) ==
    {i \in 1..Len(pairs) :
        pairs[i][1] \in LabelsOfKey(k) \/ pairs[i][2] \in LabelsOfKey(k)}

Greatest(S) == CHOOSE x \in S : \A y \in S : y <= x

Least(S) == CHOOSE x \in S : \A y \in S : x <= y

\* The negative that C4 says is matched with the positive p among the
\* negatives N of the same key.
ExpectedNegative(p, N) ==
    IF \E n \in N : n < p THEN Greatest({n \in N : n < p})
    ELSE Least(N)

\* C4: when the input holds exactly three records of a non-zero AmountKey,
\* two negative and one positive, the finished pass has emitted exactly one
\* pair for that key: the positive with the latest negative before it when
\* one precedes it, else with the first negative after it.  Amounts
\* [+a, -a, -a] give exactly the pair (0, 1).
C4_GreedyThree ==
    PassOver =>
        /\ \A k \in 1..MaxAmt :
              LET P == {l \in LabelsOfKey(k) : amounts[l + 1] > 0}
                  N == {l \in LabelsOfKey(k) : amounts[l + 1] < 0}
              IN  (Cardinality(P) = 1 /\ Cardinality(N) = 2) =>
                     /\ Cardinality(PairsOfKey(k)) = 1
                     /\ \A i \in PairsOfKey(k) :
                           pairs[i] = <<Greatest(P), ExpectedNegative(Greatest(P), N)>>
        /\ \A a \in 1..MaxAmt :
              amounts = <<a, 0 - a, 0 - a>> => pairs = << <<0, 1>> >>

\* A finished pass over four rows where both negatives of a key precede its
\* positive and a row of another key lies between them.
C4_Witness ==
    /\ cmd = "dedup"
    /\ PassOver
    /\ \E k \in 1..MaxAmt :
          /\ Cardinality(LabelsOfKey(k)) = 3
          /\ amounts[1] = 0 - k
          /\ AbsKey(amounts[2]) # k
          /\ amounts[3] = 0 - k
          /\ Len(amounts) = 4
          /\ amounts[4] = k
          /\ pairs = << <<3, 2>> >>

\* C8: at every step of the matching pass no AmountKey is in both buckets,
\* and the negatives bucket never holds key 0.
C8_BucketsDisjoint ==
    /\ (DOMAIN positives) \cap (DOMAIN negatives) = {}
    /\ 0 \notin DOMAIN negatives

\* In the pass, after a match, with both buckets occupied and key 0 pending.
C8_Witness ==
    /\ pc = "find"
    /\ Len(pairs) >= 1
    /\ 0 \in DOMAIN positives
    /\ negatives # EmptyMap

\* Labels of the summary rows (TxGroups) that are a side of a matched pair.
MatchedGroups == Matched(pairs)

\* The TxGroup formed from the Tx-ID of row l of df_acc is in a matched pair.
InMatchedGroup(l) ==
    \E g \in MatchedGroups : summary[g + 1].id = df_acc[l + 1].id

RowsOfId(id) == {l \in Labels(df_acc) : df_acc[l + 1].id = id}

C9_OnlyMatchedGroupsRemoved ==
    (cmd = "dedupacct" /\ pc = "done") =>
        \A l \in Labels(df_acc) : l \notin Range(cleaned) => InMatchedGroup(l)

RECURSIVE Flatten(_)
\* The rows of all files in file-then-row order.
Flatten(fs) ==
    IF fs = <<>> THEN <<>>
    ELSE Flatten(SubSeq(fs, 1, Len(fs) - 1)) \o fs[Len(fs)]

AllRows == Flatten(files)

\* Strings of the non-null Tx-IDs with a record whose amount is the target.
HitTxids ==
    {Str(r.id) : r \in {x \in Range(AllRows) : x.amt = lookup /\ x.id # Null}}

\* C6: a successful txlookup emits exactly the records, in file-then-row
\* order, whose Tx-ID string is in the set pass 1 collected, and that set
\* holds every Tx-ID with a record whose amount equals the target; records
\* of such a Tx-ID are emitted also when their own amount differs.
C6_EmittedByTxid ==
    (cmd = "txlookup" /\ pc = "done") =>
        /\ target_txids = HitTxids
        /\ result = SelectSeq(AllRows, LAMBDA r : Str(r.id) \in target_txids)
        /\ \A r \in Range(AllRows) :
              (r.id # Null /\ \E x \in Range(AllRows) : x.id = r.id /\ x.amt = lookup)
                 => r \in Range(result)

\* txlookup finished over two non-empty files, each contributing a record,
\* one emitted record having an amount other than the target.
C6_Witness ==
    /\ cmd = "txlookup"
    /\ pc = "done"
    /\ Len(files) = 2
    /\ \A j \in 1..2 : \E r \in Range(files[j]) : r \in Range(result)
    /\ \E r \in Range(result) : r.amt # lookup
    /\ Len(result) < Len(AllRows)

C7_State ==
    cmd = "txlookup" =>
        /\ pc = "failed" => (target_txids = {} /\ fi = Len(files) /\ result = <<>>)
        /\ pc = "pass1" => result = <<>>
        /\ pc \in {"pass2", "done"} => (target_txids # {} /\ target_txids = HitTxids)

C7_Step ==
    cmd = "txlookup" =>
        /\ (pc = "pass1" /\ fi = Len(files)) => (pc' = "failed" <=> target_txids = {})
        /\ pc' = "failed" => (pc = "pass1" /\ fi = Len(files) /\ target_txids = {})
        /\ pc = "failed" => pc' = "failed"

\* C7: txlookup ends in the no-match failure iff pass 1 finishes with an
\* empty Tx-ID set; then pass 2 never starts and nothing is emitted.  When
\* pass 2 runs, the set is non-empty and pass 1 has scanned every file.
C7_FailureOrdering == []C7_State /\ [][C7_Step]_vars

\* txlookup failed after scanning two files that hold records.
C7_Witness ==
    /\ cmd = "txlookup"
    /\ pc = "failed"
    /\ Len(files) = 2
    /\ Len(AllRows) >= 2

Finished == cmd = "txlookup" /\ pc \in {"failed", "done"}

\* C10 as stated: if some record has the target amount, txlookup does not
\* fail and emits every record with the target amount, null Tx-ID or not.
C10_CompleteWithNull ==
    (Finished /\ \E r \in Range(AllRows) : r.amt = lookup) =>
        /\ pc = "done"
        /\ \A r \in Range(AllRows) : r.amt = lookup => r \in Range(result)

\* C10 amended: if some record with a non-null Tx-ID has the target amount,
\* txlookup does not fail and emits every record with the target amount and
\* a non-null Tx-ID.
C10_CompleteNonNull ==
    (Finished /\ \E r \in Range(AllRows) : r.amt = lookup /\ r.id # Null) =>
        /\ pc = "done"
        /\ \A r \in Range(AllRows) :
              (r.amt = lookup /\ r.id # Null) => r \in Range(result)

\* txlookup succeeded on a hit in the second of two files only, while a
\* record with the target amount and a null Tx-ID was not emitted.
C10_Witness ==
    /\ cmd = "txlookup"
    /\ pc = "done"
    /\ Len(files) = 2
    /\ Hits(files[1], lookup) = {}
    /\ \E r \in Range(AllRows) : r.amt = lookup /\ r.id = Null /\ r \notin Range(result)

=============================================================================
